---------------------------- MODULE Spec2Model ----------------------------
(***************************************************************************)
(* State-machine model of the website translator server                    *)
(* (src/server/index.js): the /api/map-website crawl, the repository       *)
(* (tables websites and translations), /api/fetch-website,                 *)
(* /api/translate-website and the /view proxy routes.                      *)
(*                                                                         *)
(* Node runs every handler on one thread: the code between two awaits is   *)
(* one atomic step, so every action below is the code from one suspension  *)
(* point of a handler to the next.                                         *)
(***************************************************************************)
EXTENDS Integers, Sequences, FiniteSets, TLC

(***************************************************************************)
(* Bounds of the model and constants of the program.                       *)
(***************************************************************************)
\* const maxPages = 20 (the page cap of one crawl)
maxPages == 20
\* the largest generated site has maxPages + ExtraPaths paths
ExtraPaths == 1
\* every link graph over at most SmallSize paths is a site of the model
SmallSize == 2
\* at most MaxFailures page fetches of one crawl fail
MaxFailures == 2

Min(a, b) == IF a < b THEN a ELSE b

Range(s) == {s[i] : i \in 1..Len(s)}

\* the ascending enumeration of a finite set of integers
RECURSIVE SetToSeq(_)
SetToSeq(S) ==
  IF S = {} THEN << >>
  ELSE LET m == CHOOSE x \in S : \A y \in S : x <= y
       IN  <<m>> \o SetToSeq(S \ {m})

VARIABLES
  \* ---- one /api/map-website request ----
  site,          \* the target site: for every path, what getPageLinks returns for its page
  seedPath,      \* parsedUrl.pathname of the request
  mapPc,         \* position of the handler: "start", "loop", "fetching", "done"
  pagesQueue,    \* const pagesQueue = new Set([...]): a Set iterates in insertion order
  visitedPages,  \* const visitedPages = new Set()
  foundPages,    \* const foundPages = []
  currentPath,   \* const currentPath of the running iteration
  mapRes,        \* the response sent: status and body
  fetchLog,      \* the upstream requests issued by axios.get, in order
  failedPaths,   \* the paths whose axios.get threw (error or timeout)
  \* ---- the repository and the requests that use it ----
  websites,      \* table websites: rows [id, domain], id = position (AUTOINCREMENT)
  translations,  \* table translations: rows in insertion order, id = position
  updateCount,   \* per translations row: how many UPDATE statements have changed it
  req,           \* per request slot: the handler running in it and its locals
  \* ---- one call of translateText ----
  call,          \* its arguments, what the backend does, and what it returns
  \* ---- one page under observation ----
  page,          \* its elements and, per text, whether the repository takes the INSERT
  \* ---- one proxy request, from the arrival of the upstream page on ----
  view,          \* the route, its parameters, the document and what is made of it
  \* ---- one call of getPageLinks ----
  discover       \* the hrefs of the anchors of html, the base URL, and the result

crawlVars == <<site, seedPath, mapPc, pagesQueue, visitedPages, foundPages, currentPath,
               mapRes, fetchLog, failedPaths>>

dbVars == <<websites, translations, updateCount, req>>

\* what the other side of a call does: fixed inputs of a behaviour
envVars == <<call, page, view, discover>>

vars == <<crawlVars, dbVars, envVars>>

NoPath == -1
\* no proxy request is under observation
NoView == [route |-> "", pc |-> "none"]
\* getPageLinks is not called
NoDiscover == [pc |-> "none"]
\* no page is under observation: every INSERT and UPDATE is taken
NoPage == [doc |-> << >>, failed |-> {}, updateFails |-> FALSE]
NoRes == [status |-> 0, totalPages |-> 0]

(***************************************************************************)
(* The repository: tables websites and translations, and the prepared      *)
(* statements that read and write them.                                    *)
(***************************************************************************)
\* the requests of one behaviour, each in a slot of its own
NumReqs == 3
\* the translations table holds at most MaxRows rows
MaxRows == 2
Reqs == 1..NumReqs

Domains == {"a.example", "b.example"}
PagePaths == {"/", "/about"}
Langs == {"es", "fr"}

\* translated_text of a row inserted with null; a JavaScript undefined
NULL == "<null>"
Undefined == "<undefined>"

\* no row: what .get() returns when the SELECT matches nothing
NoWebsite == [id |-> 0, domain |-> ""]

\* response.data of an upstream page, as the selector
\* 'h1, h2, h3, h4, h5, h6, p, span, a, button' sees it: el.name and
\* $el.text().trim() of each element in document order
Docs == { <<[name |-> "span", text |-> ""]>>,
          <<[name |-> "p", text |-> "Hello"]>>,
          <<[name |-> "p", text |-> "Hello"], [name |-> "span", text |-> ""],
            [name |-> "h1", text |-> "World"]>> }

\* findWebsite: SELECT id, domain FROM websites WHERE domain = ? (.get: first row)
findWebsiteNever(sites, domain) == NoWebsite

findWebsite(sites, domain) ==
  IF \E i \in 1..Len(sites) : sites[i].domain = domain
  THEN sites[CHOOSE i \in 1..Len(sites) :
               /\ sites[i].domain = domain
               /\ \A j \in 1..(i - 1) : sites[j].domain # domain]
  ELSE NoWebsite

\* insertWebsite.run(domain); result.lastInsertRowid is the new id
insertWebsite(sites, domain) ==
  Append(sites, [id |-> Len(sites) + 1, domain |-> domain])

\* const transaction = db.transaction(() => { find or insert }); transaction()
\* gives the table after the transaction and the website row it returns
FindOrCreate(sites, domain) ==
  LET found == findWebsite(sites, domain)
  IN  IF found = NoWebsite
      THEN [sites |-> insertWebsite(sites, domain),
            website |-> [id |-> Len(sites) + 1, domain |-> domain]]
      ELSE [sites |-> sites, website |-> found]

\* insertTranslation.run(website_id, original_text, translated_text, language, path, element_type)
insertTranslation(rows, website_id, original_text, translated_text, language, path, element_type) ==
  Append(rows, [id |-> Len(rows) + 1, website_id |-> website_id,
                original_text |-> original_text, translated_text |-> translated_text,
                language |-> language, path |-> path, element_type |-> element_type])

\* the .each loop of fetch-website over the elements of one page:
\* if (text) insertTranslation.run(website.id, text, null, 'en', pagePath, el.name)
InsertPage(rows, website_id, pagePath, doc) ==
  LET texts == SelectSeq(doc, LAMBDA el : el.text # "")
      after[k \in 0..Len(texts)] ==
        IF k = 0 THEN rows
        ELSE insertTranslation(after[k - 1], website_id, texts[k].text, NULL, "en",
                               pagePath, texts[k].name)
  IN  after[Len(texts)]

\* a loop that would insert a text only when the site has no row with that
\* text and path yet
InsertPageOnce(rows, website_id, pagePath, doc, failed) ==
  LET texts == SelectSeq(doc, LAMBDA el : el.text # "")
      kept == SelectSeq([k \in 1..Len(texts) |-> k],
                        LAMBDA k : /\ k \notin failed
                                   /\ \A i \in 1..Len(rows) :
                                        \/ rows[i].website_id # website_id
                                        \/ rows[i].path # pagePath
                                        \/ rows[i].original_text # texts[k].text)
  IN  rows \o [j \in 1..Len(kept) |->
                [id |-> Len(rows) + j, website_id |-> website_id,
                 original_text |-> texts[kept[j]].text, translated_text |-> NULL,
                 language |-> "en", path |-> pagePath,
                 element_type |-> texts[kept[j]].name]]

\* the same loop when insertTranslation.run throws for the texts at the
\* positions of failed: catch (error) { console.error(...) } and the loop goes
\* on with the next element; a failed INSERT leaves no row
InsertPageSkipping(rows, website_id, pagePath, doc, failed) ==
  LET texts == SelectSeq(doc, LAMBDA el : el.text # "")
      kept == SelectSeq([k \in 1..Len(texts) |-> k], LAMBDA k : k \notin failed)
  IN  rows \o [j \in 1..Len(kept) |->
                [id |-> Len(rows) + j, website_id |-> website_id,
                 original_text |-> texts[kept[j]].text, translated_text |-> NULL,
                 language |-> "en", path |-> pagePath,
                 element_type |-> texts[kept[j]].name]]

\* SELECT * FROM translations WHERE website_id = ? AND translated_text IS NULL
findUntranslated(rows, websiteId) ==
  SelectSeq(rows, LAMBDA row : row.website_id = websiteId /\ row.translated_text = NULL)

\* UPDATE translations SET translated_text = ?, language = ? WHERE id = ?
updateTranslationKeepsLanguage(rows, id, translatedText, language) ==
  [rows EXCEPT ![id].translated_text = translatedText]

updateTranslation(rows, id, translatedText, language) ==
  [rows EXCEPT ![id].translated_text = translatedText, ![id].language = language]

\* findTranslations: SELECT * FROM translations
\*                   WHERE website_id = ? AND language = ? AND path = ?
findTranslations(rows, websiteId, language, path) ==
  SelectSeq(rows, LAMBDA row : /\ row.website_id = websiteId
                               /\ row.language = language
                               /\ row.path = path)

(***************************************************************************)
(* translateText and its backend.                                          *)
(***************************************************************************)
\* what the POST to LibreTranslate does: it answers {translatedText}, the
\* connection fails, it times out, or it answers a body without the field
BackendTexts == {"Hola"}

\* the kinds of failure: no connection, a timeout, a non-2xx status (axios
\* throws on the three), a 2xx body without translatedText
BackendFailures == {"network", "timeout", "http_error", "malformed"}

BackendOutcomes ==
  { [kind |-> "ok", translatedText |-> t] : t \in BackendTexts }
    \cup { [kind |-> k, translatedText |-> Undefined] : k \in BackendFailures }

\* async function translateText(text, targetLanguage): axios.post throws on a
\* network error or a timeout (the catch returns text); otherwise the function
\* returns response.data.translatedText, undefined when the body has no such field
translateText(text, targetLanguage, outcome) ==
  IF outcome.kind \in {"network", "timeout", "http_error"}
  THEN text
  ELSE outcome.translatedText

\* LT_LOAD_ONLY=en,es,fr,de,it,pt,ru,zh,ja,ko,ar: the languages of the backend
LoadedLanguages == {"en", "es", "fr", "de", "it", "pt", "ru", "zh", "ja", "ko", "ar"}

NoCall == [text |-> "", targetLanguage |-> "", outcome |-> "", pc |-> "none",
           returned |-> "", raised |-> FALSE]

\* translateText is called and awaits axios.post
InitCall ==
  call \in { [NoCall EXCEPT !.text = t, !.targetLanguage = l, !.outcome = o.kind,
                            !.pc = "awaiting"] :
               t \in {"Hello", "World"}, l \in LoadedLanguages, o \in BackendOutcomes }

\* the await is over: the try block returns, or the catch block does; no
\* statement of the function is outside the try, so nothing is raised
TranslateTextReturns ==
  /\ call.pc = "awaiting"
  /\ \E o \in BackendOutcomes :
       /\ o.kind = call.outcome
       /\ call' = [call EXCEPT !.pc = "returned",
                               !.returned = translateText(call.text, call.targetLanguage, o),
                               !.raised = FALSE]

(***************************************************************************)
(* A request slot.                                                         *)
(***************************************************************************)
\* kind: the route; pc: where its handler is suspended; status: the answer
\* sent; domain, website, pages (the selected pages from the one in flight
\* on), lang, items (the ids of the rows of untranslated), idx (the item in
\* flight): the locals of the handler
Idle == [kind |-> "idle", pc |-> "idle", status |-> 0, domain |-> "", website |-> 0,
         pages |-> << >>, lang |-> "", items |-> << >>, idx |-> 0]

\* the answer is sent and the locals are gone
Done(kind, status) == [Idle EXCEPT !.kind = kind, !.pc = "done", !.status = status]

\* a new request takes the first unused slot (the slots are interchangeable)
Free(r) ==
  /\ req[r].pc = "idle"
  /\ \A k \in 1..(r - 1) : req[k].pc # "idle"

\* /api/translate-website has answered "Website translated successfully"; websiteId and
\* targetLanguage are the request's body, which stays what it was
Completed(websiteId, targetLanguage) ==
  [Done("translate", 200) EXCEPT !.website = websiteId, !.lang = targetLanguage]

InitRepository ==
  /\ websites = << >>
  /\ translations = << >>
  /\ updateCount = << >>
  /\ req = [r \in Reqs |-> Idle]

(***************************************************************************)
(* Strings the program looks inside.  Such a string is written as the      *)
(* sequence of its pieces: words, " " for white space, and the             *)
(* separators of a URL ("https:", "/", "?", "&", "=", "#") each a piece of *)
(* its own.                                                                *)
(***************************************************************************)
\* String.prototype.indexOf(pat) + 1: the first position where pat occurs, 0 if none
IndexOf(str, pat) ==
  LET at == { i \in 1..(Len(str) - Len(pat) + 1) : SubSeq(str, i, i + Len(pat) - 1) = pat }
  IN  IF at = {} THEN 0 ELSE CHOOSE i \in at : \A j \in at : i <= j

\* String.prototype.includes
Includes(str, pat) == IndexOf(str, pat) # 0

\* String.prototype.replace(pat, rep) with a string pattern: the first
\* occurrence only
ReplaceFirst(str, pat, rep) ==
  LET i == IndexOf(str, pat)
  IN  IF i = 0 THEN str
      ELSE SubSeq(str, 1, i - 1) \o rep \o SubSeq(str, i + Len(pat), Len(str))

\* String.prototype.trim
Trim(str) ==
  LET ink == { i \in 1..Len(str) : str[i] # " " }
  IN  IF ink = {} THEN << >>
      ELSE SubSeq(str, CHOOSE i \in ink : \A j \in ink : i <= j,
                       CHOOSE i \in ink : \A j \in ink : i >= j)

\* String.prototype.startsWith(prefix)
StartsWith(str, prefix) ==
  Len(str) >= Len(prefix) /\ SubSeq(str, 1, Len(prefix)) = prefix

\* a column that is NULL, where its values are such strings
NullText == <<NULL>>

\* a text column used as a condition: null and '' are falsy
Truthy(text) == text # NullText /\ text # << >>

(***************************************************************************)
(* Documents, as cheerio holds them.  A node is a text node or an element  *)
(* with a name, its attributes in source order and its child nodes; the    *)
(* documents of the model nest elements two deep, so an inner element has  *)
(* one text node, its data.                                                *)
(***************************************************************************)
TextNode(data) == [type |-> "text", name |-> "", attrs |-> << >>, data |-> data]

\* an element inside a top-level element, with the data of its text node
Inner(name, attrs, data) == [type |-> "tag", name |-> name, attrs |-> attrs, data |-> data]

\* an element of the body
Element(name, attrs, children) == [name |-> name, attrs |-> attrs, children |-> children]

Attr(name, value) == [name |-> name, value |-> value]

\* the selector 'h1, h2, h3, h4, h5, h6, p, span, a, button'
Qualifying == {"h1", "h2", "h3", "h4", "h5", "h6", "p", "span", "a", "button"}

\* elements whose body is raw text, not markup
RawText == {"script", "style"}

RECURSIVE Flatten(_)
Flatten(seqs) == IF seqs = << >> THEN << >> ELSE Head(seqs) \o Flatten(Tail(seqs))

\* $el.text(): the data of every text node under the element, in order
\* (that of script and style elements too)
TextOf(el) == Flatten([k \in 1..Len(el.children) |-> el.children[k].data])

\* A serialized piece: tok is the piece, kind says where the parser puts it
\* when the string is read back: "markup", "attr" (inside an attribute
\* value), "text" (a text node) or "raw" (the body of a script or style).
Tagged(str, kind) == [k \in 1..Len(str) |-> [tok |-> str[k], kind |-> kind]]

Toks(ser) == [k \in 1..Len(ser) |-> ser[k].tok]

\* the attributes as the serializer writes them:  name="value"
AttrsHtml(attrs) ==
  Flatten([k \in 1..Len(attrs) |->
             Tagged(<<" ", attrs[k].name, "=\"">>, "markup")
               \o Tagged(attrs[k].value, "attr")
               \o Tagged(<<"\"">>, "markup")])

\* outer HTML of a child node
NodeHtml(node) ==
  IF node.type = "text" THEN Tagged(node.data, "text")
  ELSE Tagged(<<"<", node.name>>, "markup") \o AttrsHtml(node.attrs)
         \o Tagged(<<">">>, "markup")
         \o Tagged(node.data, IF node.name \in RawText THEN "raw" ELSE "text")
         \o Tagged(<<"</", node.name, ">">>, "markup")

\* $el.html(): the serialized children of the element
InnerHtml(el) == Flatten([k \in 1..Len(el.children) |-> NodeHtml(el.children[k])])

\* an element of the response: its name, attributes and serialized content
Rendered(el) == [name |-> el.name, attrs |-> el.attrs, inner |-> InnerHtml(el)]

\* $.html() of the body
Html(doc) == [k \in 1..Len(doc) |-> Rendered(doc[k])]

(***************************************************************************)
(* Text substitution of the proxy routes.                                  *)
(***************************************************************************)
\* getTranslation.get(domain, originalText, language): SELECT t.translated_text
\* FROM translations t JOIN websites w ON t.website_id = w.id WHERE w.domain = ?
\* AND t.original_text = ? AND t.language = ?  (.get: the first row, or none)
getTranslation(sites, rows, domain, originalText, language) ==
  LET hits == SelectSeq(rows, LAMBDA row :
                /\ \E i \in 1..Len(sites) : sites[i].id = row.website_id
                                              /\ sites[i].domain = domain
                /\ row.original_text = originalText
                /\ row.language = language)
  IN  IF hits = << >> THEN NullText ELSE hits[1].translated_text

\* function walkAndReplace(node), at a text node (nodeType === 3):
\* if (node.nodeValue.includes(original_text)) node.nodeValue =
\*   node.nodeValue.replace(original_text, translated_text || original_text)
ReplaceInText(data, translation) ==
  IF Includes(data, translation.original_text)
  THEN ReplaceFirst(data, translation.original_text,
                    IF Truthy(translation.translated_text)
                    THEN translation.translated_text ELSE translation.original_text)
  ELSE data

\* walkAndReplace(el) from an element: node.childNodes?.forEach(walkAndReplace)
\* reaches every text node under it, whatever element holds it
WalkElement(el, translation) ==
  [el EXCEPT !.children = [k \in 1..Len(el.children) |->
     [el.children[k] EXCEPT !.data = ReplaceInText(@, translation)]]]

\* $(`${element_type}:contains("${original_text}")`).each(walkAndReplace) for
\* one translation: the selection is made first (an element matches by its
\* name and the text under it), then each selected element is walked, the
\* outer element before the ones inside it
WalkSelected(el, translation) ==
  LET outer == /\ el.name = translation.element_type
               /\ Includes(TextOf(el), translation.original_text)
      inner == { k \in 1..Len(el.children) :
                   /\ el.children[k].type = "tag"
                   /\ el.children[k].name = translation.element_type
                   /\ Includes(el.children[k].data, translation.original_text) }
      walked == IF outer THEN WalkElement(el, translation) ELSE el
  IN  [walked EXCEPT !.children = [k \in 1..Len(walked.children) |->
        IF k \in inner
        THEN [walked.children[k] EXCEPT !.data = ReplaceInText(@, translation)]
        ELSE walked.children[k]]]

\* translations.forEach(translation => { ... }) over the rows of
\* getTranslations.all(website.id, path, language)
RECURSIVE WalkAndReplace(_, _)
WalkAndReplace(doc, rows) ==
  IF rows = << >> THEN doc
  ELSE WalkAndReplace([k \in 1..Len(doc) |-> WalkSelected(doc[k], Head(rows))], Tail(rows))

\* the lookup pass of app.get('/view/:domain'): for each qualifying element,
\* originalText = $el.text().trim(); when getTranslation gives a text,
\* $el.text(translated_text) puts one text node in place of its children.
\* The elements inside a replaced element are no longer in the document.
TextLookupPass(doc, sites, rows, domain, language) ==
  [k \in 1..Len(doc) |->
    LET el == doc[k]
        found == IF el.name \in Qualifying /\ Trim(TextOf(el)) # << >>
                 THEN getTranslation(sites, rows, domain, Trim(TextOf(el)), language)
                 ELSE NullText
    IN  IF Truthy(found) THEN [el EXCEPT !.children = <<TextNode(found)>>]
        ELSE [el EXCEPT !.children = [j \in 1..Len(el.children) |->
               LET node == el.children[j]
                   t == IF node.type = "tag" /\ node.name \in Qualifying
                           /\ Trim(node.data) # << >>
                        THEN getTranslation(sites, rows, domain, Trim(node.data), language)
                        ELSE NullText
               IN  IF Truthy(t) THEN [node EXCEPT !.data = t] ELSE node]]]

\* originalHtml.replace(originalText, translated_text) on serialized HTML:
\* the first occurrence, wherever the serialized string has it; read back by
\* $el.html(translatedHtml), the new pieces are where the old ones were
ReplaceInHtml(ser, originalText, translated) ==
  LET i == IndexOf(Toks(ser), originalText)
  IN  IF i = 0 THEN ser
      ELSE SubSeq(ser, 1, i - 1) \o Tagged(translated, ser[i].kind)
             \o SubSeq(ser, i + Len(originalText), Len(ser))

\* the text pass of app.get('/view/:domain/*'): for each qualifying element,
\* originalText = $el.text().trim(); when getTranslation gives a text,
\* $el.html($el.html().replace(originalText, translated_text)).  The result
\* is the serialized body.
HtmlReplacePass(doc, sites, rows, domain, lang) ==
  [k \in 1..Len(doc) |->
    LET el == doc[k]
        found == IF el.name \in Qualifying /\ Trim(TextOf(el)) # << >>
                 THEN getTranslation(sites, rows, domain, Trim(TextOf(el)), lang)
                 ELSE NullText
        each == [el EXCEPT !.children = [j \in 1..Len(el.children) |->
                  LET node == el.children[j]
                      t == IF node.type = "tag" /\ node.name \in Qualifying
                              /\ Trim(node.data) # << >>
                           THEN getTranslation(sites, rows, domain, Trim(node.data), lang)
                           ELSE NullText
                  IN  IF Truthy(t)
                      THEN [node EXCEPT !.data = ReplaceFirst(@, Trim(node.data), t)]
                      ELSE node]]
    IN  IF Truthy(found)
        THEN [Rendered(el) EXCEPT !.inner = ReplaceInHtml(@, Trim(TextOf(el)), found)]
        ELSE Rendered(each)]

(***************************************************************************)
(* URLs, and the link and asset rewriting of the proxy routes.             *)
(***************************************************************************)
\* the pieces that end the path of a URL, and the schemes the documents use
Schemes == {"http:", "https:"}
Opaque == {"mailto:", "tel:", "javascript:", "data:"}

\* the first position of one of the pieces of seps in str, Len(str) + 1 if none
FirstOf(str, seps) ==
  LET at == { i \in 1..Len(str) : str[i] \in seps }
  IN  IF at = {} THEN Len(str) + 1 ELSE CHOOSE i \in at : \A j \in at : i <= j

\* path, query and fragment of the part of a URL after its authority
SplitPath(rest) ==
  LET q == FirstOf(rest, {"?", "#"})
      h == FirstOf(rest, {"#"})
      query == SubSeq(rest, q, h - 1)
  IN  [pathname |-> IF q = 1 THEN <<"/">> ELSE SubSeq(rest, 1, q - 1),
       search |-> IF Len(query) <= 1 THEN << >> ELSE query,
       hash |-> IF h >= Len(rest) THEN << >> ELSE SubSeq(rest, h, Len(rest))]

\* new URL(href, `https://${domain}`): an absolute URL keeps its own host, a
\* scheme without authority has no host, anything else is resolved against
\* the origin (the documents use no dot segments)
ParseURL(href, domain) ==
  IF href # << >> /\ href[1] \in Schemes /\ Len(href) >= 4
  THEN [protocol |-> href[1], hostname |-> href[4]] @@ SplitPath(SubSeq(href, 5, Len(href)))
  ELSE IF href # << >> /\ href[1] \in Opaque
  THEN [protocol |-> href[1], hostname |-> "", pathname |-> Tail(href),
        search |-> << >>, hash |-> << >>]
  ELSE IF StartsWith(href, <<"/", "/">>) /\ Len(href) >= 3
  THEN [protocol |-> "https:", hostname |-> href[3]] @@ SplitPath(SubSeq(href, 4, Len(href)))
  ELSE IF href = << >> \/ href[1] \in {"/", "?", "#"}
  THEN [protocol |-> "https:", hostname |-> domain] @@ SplitPath(href)
  ELSE [protocol |-> "https:", hostname |-> domain] @@ SplitPath(<<"/">> \o href)

\* URL.prototype.href
Href(url) ==
  IF url.protocol \in Opaque THEN <<url.protocol>> \o url.pathname
  ELSE <<url.protocol, "/", "/", url.hostname>> \o url.pathname \o url.search \o url.hash

\* $(el).attr(name): the value, undefined without the attribute; it is only
\* used as a condition, where undefined and '' are both falsy
GetAttr(attrs, name) ==
  LET at == { k \in 1..Len(attrs) : attrs[k].name = name }
  IN  IF at = {} THEN << >> ELSE attrs[CHOOSE k \in at : \A j \in at : k <= j].value

\* $(el).attr(name, value) on an element that has the attribute
SetAttr(attrs, name, value) ==
  [k \in 1..Len(attrs) |-> IF attrs[k].name = name THEN Attr(name, value) ELSE attrs[k]]

\* the elements a pass $(selector).each(...) visits: every element of the
\* document, by name and attributes
Elements(doc) ==
  UNION { { <<doc[k].name, doc[k].attrs>> } \cup
          { <<doc[k].children[j].name, doc[k].children[j].attrs>> :
              j \in { i \in 1..Len(doc[k].children) : doc[k].children[i].type = "tag" } } :
          k \in 1..Len(doc) }

\* a pass $(selector).each(...) that changes attributes only: f gives the new
\* attributes of each element of Elements(doc)
EachElement(doc, f) ==
  [k \in 1..Len(doc) |->
    [doc[k] EXCEPT !.attrs = f[<<doc[k].name, @>>],
                   !.children = [j \in 1..Len(doc[k].children) |->
                      IF doc[k].children[j].type = "tag"
                      THEN [doc[k].children[j] EXCEPT
                              !.attrs = f[<<doc[k].children[j].name, @>>]]
                      ELSE doc[k].children[j]]]]

\* `/view/${domain}${hrefUrl.pathname}${hrefUrl.search}?lang=${language}`
ProxyHref(domain, url, language) ==
  <<"/", "view", "/", domain>> \o url.pathname \o url.search \o <<"?", "lang", "=", language>>

\* app.get('/view/:domain'): $('a').each: if (href) { hrefUrl = new URL(href,
\* `https://${domain}`); if (hrefUrl.hostname === domain) $(el).attr('href', ...) }
RewriteLinks(doc, domain, language) ==
  LET f(name, attrs) ==
        IF name = "a" /\ GetAttr(attrs, "href") # << >>
           /\ ParseURL(GetAttr(attrs, "href"), domain).hostname = domain
        THEN SetAttr(attrs, "href",
                     ProxyHref(domain, ParseURL(GetAttr(attrs, "href"), domain), language))
        ELSE attrs
  IN  EachElement(doc, [el \in Elements(doc) |-> f(el[1], el[2])])

\* app.get('/view/:domain'): $('img, script, link').each: src = attr('src') ||
\* attr('href'); if (src && !src.startsWith('http')) the attribute it came
\* from becomes new URL(src, `https://${domain}`).href
RewriteAssets(doc, domain) ==
  LET f(name, attrs) ==
        LET src == IF GetAttr(attrs, "src") # << >> THEN GetAttr(attrs, "src")
                   ELSE GetAttr(attrs, "href")
        IN  IF name \in {"img", "script", "link"} /\ src # << >> /\ src[1] \notin Schemes
            THEN SetAttr(attrs, IF GetAttr(attrs, "src") # << >> THEN "src" ELSE "href",
                         Href(ParseURL(src, domain)))
            ELSE attrs
  IN  EachElement(doc, [el \in Elements(doc) |-> f(el[1], el[2])])

\* app.get('/view/:domain/*'): $('[href]').each: if (href && !href.startsWith('http')
\* && !href.startsWith('//') && !href.startsWith('mailto:') && !href.startsWith('#'))
\* the leading '/' is cut; $('[src]').each: the same without the last two tests.
\* The <base href="${protocol}//${domain}/"> it puts in the head resolves them.
StripLeadingSlash(doc) ==
  LET cut(value) == IF value[1] = "/" THEN Tail(value) ELSE value
      f(name, attrs) ==
        [k \in 1..Len(attrs) |->
          LET v == attrs[k].value
          IN  IF /\ attrs[k].name = "href" /\ v # << >> /\ v[1] \notin Schemes
                 /\ ~StartsWith(v, <<"/", "/">>) /\ v[1] \notin {"mailto:", "#"}
              THEN Attr("href", cut(v))
              ELSE IF /\ attrs[k].name = "src" /\ v # << >> /\ v[1] \notin Schemes
                      /\ ~StartsWith(v, <<"/", "/">>)
              THEN Attr("src", cut(v))
              ELSE attrs[k]]
  IN  EachElement(doc, [el \in Elements(doc) |-> f(el[1], el[2])])

(***************************************************************************)
(* The sites of the model.  A site gives, for each of its paths 0..size-1  *)
(* (0 is "/"), the array getPageLinks returns for the page at that path:   *)
(* the distinct same-host page paths of its anchors in document order.     *)
(***************************************************************************)
ShapeLinks(shape, size, p) ==
  CASE shape = "chain" -> IF p + 1 < size THEN <<p + 1>> ELSE << >>
    [] shape = "ring"  -> <<p, (p + 1) % size, 0>>
    [] shape = "star"  -> IF p = 0 THEN [i \in 1..(size - 1) |-> i] ELSE <<0, p>>
    [] shape = "tree"  -> SelectSeq(<<2 * p + 1, 2 * p + 2, p \div 2>>, LAMBDA q : q < size)
    [] OTHER           -> << >>

\* the Set of getPageLinks keeps the first occurrence of each path
Unique(s) ==
  LET first == {i \in 1..Len(s) : \A j \in 1..(i - 1) : s[j] # s[i]}
  IN  [k \in 1..Cardinality(first) |->
         s[CHOOSE i \in first : Cardinality({j \in first : j < i}) = k - 1]]

Shapes == {"chain", "ring", "star", "tree"}

LargeSites ==
  { [size |-> n, pageLinks |-> [p \in 0..(n - 1) |-> Unique(ShapeLinks(sh, n, p))]] :
      n \in (maxPages - 1)..(maxPages + ExtraPaths), sh \in Shapes }

SmallSites ==
  UNION { { [size |-> n, pageLinks |-> [p \in 0..(n - 1) |-> SetToSeq(adj[p])]] :
              adj \in [0..(n - 1) -> SUBSET (0..(n - 1))] } : n \in 1..SmallSize }

\* the scenario site of the specification: / -> /a, /b ; /a -> ; /b -> /a
ScenarioSite == [size |-> 3, pageLinks |-> [p \in 0..2 |->
                   CASE p = 0 -> <<1, 2>> [] p = 1 -> << >> [] OTHER -> <<1>>]]

Sites == LargeSites \cup SmallSites \cup {ScenarioSite}

\* const links = await getPageLinks(response.data, baseUrl)
getPageLinks(s, p) == s.pageLinks[p]

(***************************************************************************)
(* /api/map-website                                                        *)
(***************************************************************************)
\* while (pagesQueue.size > 0 && visitedPages.size < maxPages)
LoopCondOffByOne(queue, visited) ==
  Len(queue) > 0 /\ Cardinality(visited) <= maxPages

LoopCond(queue, visited) ==
  Len(queue) > 0 /\ Cardinality(visited) < maxPages

\* pagesQueue.delete(currentPath), currentPath being the first element
DeleteKeepsHead(queue) == queue

DeleteHead(queue) == Tail(queue)

\* visitedPages.add(currentPath)
AddVisitedForgets(visited, p) == visited

AddVisited(visited, p) == visited \cup {p}

EnqueueLinksInFront(queue, links, visited) ==
  SelectSeq(Unique(links), LAMBDA link : link \notin visited /\ link \notin Range(queue))
    \o queue

\* links.forEach(link => { if (!visitedPages.has(link)) pagesQueue.add(link) })
\* (a Set keeps each element once, at the place of its first insertion)
EnqueueLinks(queue, links, visited) ==
  queue \o SelectSeq(Unique(links),
                     LAMBDA link : link \notin visited /\ link \notin Range(queue))

\* catch (error) { console.error(...) } of one page: nothing is recorded
RecordFailureAsPage(found, p) == Append(found, [path |-> p])

RecordFailure(found, p) == found

InitCrawl ==
  /\ site \in Sites
  /\ seedPath = NoPath
  /\ mapPc = "start"
  /\ pagesQueue = << >>
  /\ visitedPages = {}
  /\ foundPages = << >>
  /\ currentPath = NoPath
  /\ mapRes = NoRes
  /\ fetchLog = << >>
  /\ failedPaths = {}
  /\ InitRepository
  /\ call = NoCall
  /\ page = NoPage
  /\ view = NoView
  /\ discover = NoDiscover

\* if (!url) return res.status(400)
MapNoUrl ==
  /\ mapPc = "start"
  /\ mapPc' = "done"
  /\ mapRes' = [status |-> 400, totalPages |-> 0]
  /\ UNCHANGED <<site, seedPath, pagesQueue, visitedPages, foundPages, currentPath,
                 fetchLog, failedPaths>>
  /\ UNCHANGED <<dbVars, envVars>>

\* new URL(url) throws: the outer catch answers 500
MapBadUrl ==
  /\ mapPc = "start"
  /\ mapPc' = "done"
  /\ mapRes' = [status |-> 500, totalPages |-> 0]
  /\ UNCHANGED <<site, seedPath, pagesQueue, visitedPages, foundPages, currentPath,
                 fetchLog, failedPaths>>
  /\ UNCHANGED <<dbVars, envVars>>

\* the seed: pagesQueue = new Set([parsedUrl.pathname])
MapStart ==
  /\ mapPc = "start"
  /\ \E seed \in 0..Min(site.size - 1, 1) :
       /\ seedPath' = seed
       /\ pagesQueue' = <<seed>>
  /\ mapPc' = "loop"
  /\ UNCHANGED <<site, visitedPages, foundPages, currentPath, mapRes,
                 fetchLog, failedPaths>>
  /\ UNCHANGED <<dbVars, envVars>>

\* one pass of the loop head up to the await of axios.get
MapDequeue ==
  /\ mapPc = "loop"
  /\ LoopCond(pagesQueue, visitedPages)
  /\ LET p == Head(pagesQueue)
     IN  /\ pagesQueue' = DeleteHead(pagesQueue)
         /\ IF p \in visitedPages
            THEN \* continue
                 UNCHANGED <<mapPc, visitedPages, currentPath, fetchLog>>
            ELSE /\ visitedPages' = AddVisited(visitedPages, p)
                 /\ currentPath' = p
                 /\ fetchLog' = Append(fetchLog, p)
                 /\ mapPc' = "fetching"
  /\ UNCHANGED <<site, seedPath, foundPages, mapRes, failedPaths>>
  /\ UNCHANGED <<dbVars, envVars>>

\* axios.get resolved: record the page and enqueue its links
MapFetchOk ==
  /\ mapPc = "fetching"
  /\ foundPages' = Append(foundPages, [path |-> currentPath])
  /\ pagesQueue' = EnqueueLinks(pagesQueue, getPageLinks(site, currentPath), visitedPages)
  /\ mapPc' = "loop"
  /\ UNCHANGED <<site, seedPath, visitedPages, currentPath, mapRes, fetchLog, failedPaths>>
  /\ UNCHANGED <<dbVars, envVars>>

\* axios.get rejected or timed out after 5000 ms: caught inside the loop
MapFetchFail ==
  /\ mapPc = "fetching"
  /\ Cardinality(failedPaths) < MaxFailures
  /\ failedPaths' = failedPaths \cup {currentPath}
  /\ foundPages' = RecordFailure(foundPages, currentPath)
  /\ mapPc' = "loop"
  /\ UNCHANGED <<site, seedPath, pagesQueue, visitedPages, currentPath, mapRes, fetchLog>>
  /\ UNCHANGED <<dbVars, envVars>>

\* the loop condition is false: res.json({domain, pages, totalPages})
MapRespond ==
  /\ mapPc = "loop"
  /\ ~LoopCond(pagesQueue, visitedPages)
  /\ mapRes' = [status |-> 200, totalPages |-> Len(foundPages)]
  /\ mapPc' = "done"
  /\ UNCHANGED <<site, seedPath, pagesQueue, visitedPages, foundPages, currentPath,
                 fetchLog, failedPaths>>
  /\ UNCHANGED <<dbVars, envVars>>

NextCrawl ==
  \/ MapNoUrl
  \/ MapBadUrl
  \/ MapStart
  \/ MapDequeue
  \/ MapFetchOk
  \/ MapFetchFail
  \/ MapRespond

SpecCrawl == InitCrawl /\ [][NextCrawl]_vars

\* every fetch returns or times out, and the handler then runs on
SpecCrawlFair == SpecCrawl /\ WF_vars(NextCrawl)

(***************************************************************************)
(* /api/fetch-website                                                      *)
(***************************************************************************)
SelectedPages == { <<"/">>, <<"/", "/about">> }

\* if (!url || !selectedPages || !selectedPages.length) return res.status(400)
FetchWebsiteReject(r) ==
  /\ Free(r)
  /\ req' = [req EXCEPT ![r] = Done("fetch", 400)]
  /\ UNCHANGED <<websites, translations, updateCount>>
  /\ UNCHANGED <<crawlVars, envVars>>

\* new URL(url) throws: the outer catch answers 500
FetchWebsiteBadUrl(r) ==
  /\ Free(r)
  /\ req' = [req EXCEPT ![r] = Done("fetch", 500)]
  /\ UNCHANGED <<websites, translations, updateCount>>
  /\ UNCHANGED <<crawlVars, envVars>>

\* the handler up to its first await: the find-or-create transaction, then
\* axios.get of the first selected page
FetchWebsiteStart(r) ==
  /\ Free(r)
  /\ \E domain \in Domains, selectedPages \in SelectedPages :
       LET t == FindOrCreate(websites, domain)
       IN  /\ websites' = t.sites
           /\ req' = [req EXCEPT ![r] =
                        [Idle EXCEPT !.kind = "fetch", !.pc = "fetching",
                                     !.domain = domain, !.website = t.website.id,
                                     !.pages = selectedPages]]
  /\ UNCHANGED <<translations, updateCount>>
  /\ UNCHANGED <<crawlVars, envVars>>

\* axios.get of the page resolved: the .each loop inserts its texts, then the
\* next page is requested, or the response is sent after the last page
FetchPageOk(r) ==
  /\ req[r].kind = "fetch" /\ req[r].pc = "fetching"
  /\ \E doc \in Docs :
       LET rows == InsertPage(translations, req[r].website, Head(req[r].pages), doc)
           rest == Tail(req[r].pages)
       IN  /\ Len(rows) <= MaxRows
           /\ translations' = rows
           /\ updateCount' = updateCount \o [k \in 1..(Len(rows) - Len(translations)) |-> 0]
           /\ req' = [req EXCEPT ![r] = IF rest = << >> THEN Done("fetch", 200)
                                         ELSE [req[r] EXCEPT !.pages = rest]]
  /\ UNCHANGED websites
  /\ UNCHANGED <<crawlVars, envVars>>

\* axios.get of the page rejected (or timed out after 10000 ms): the outer
\* catch answers 500; nothing is rolled back
FetchPageFail(r) ==
  /\ req[r].kind = "fetch" /\ req[r].pc = "fetching"
  /\ req' = [req EXCEPT ![r] = Done("fetch", 500)]
  /\ UNCHANGED <<websites, translations, updateCount>>
  /\ UNCHANGED <<crawlVars, envVars>>

\* axios.get of the page resolved with the page under observation, and the
\* repository throws on the INSERTs of page.failed: the loop logs and goes on
FetchPageSkip(r) ==
  /\ page # NoPage
  /\ req[r].kind = "fetch" /\ req[r].pc = "fetching"
  /\ LET rows == InsertPageSkipping(translations, req[r].website, Head(req[r].pages),
                                    page.doc, page.failed)
         rest == Tail(req[r].pages)
     IN  /\ Len(rows) <= MaxRows
         /\ translations' = rows
         /\ updateCount' = updateCount \o [k \in 1..(Len(rows) - Len(translations)) |-> 0]
         /\ req' = [req EXCEPT ![r] = IF rest = << >> THEN Done("fetch", 200)
                                       ELSE [req[r] EXCEPT !.pages = rest]]
  /\ UNCHANGED websites
  /\ UNCHANGED <<crawlVars, envVars>>

(***************************************************************************)
(* /api/translate-website                                                  *)
(***************************************************************************)
\* the handler up to its first await: the SELECT of the untranslated rows,
\* then translateText of the first one (or the answer, when there is none)
TranslateStart(r) ==
  /\ Free(r)
  /\ \E websiteId \in 1..Len(websites), targetLanguage \in Langs :
       LET untranslated == findUntranslated(translations, websiteId)
       IN  req' = [req EXCEPT ![r] =
                     IF untranslated = << >>
                     THEN Completed(websiteId, targetLanguage)
                     ELSE [Idle EXCEPT !.kind = "translate", !.pc = "translating",
                                       !.website = websiteId, !.lang = targetLanguage,
                                       !.items = [k \in 1..Len(untranslated) |->
                                                    untranslated[k].id],
                                       !.idx = 1]]
  /\ UNCHANGED <<websites, translations, updateCount>>
  /\ UNCHANGED <<crawlVars, envVars>>

\* a handler that would read the untranslated rows again after each UPDATE
TranslateItemReadingAgain(r) ==
  /\ req[r].kind = "translate" /\ req[r].pc = "translating"
  /\ \E translatedText \in { translateText(translations[req[r].items[req[r].idx]].original_text,
                                              req[r].lang, outcome) :
                                  outcome \in BackendOutcomes } :
       LET id == req[r].items[req[r].idx]
           rows == updateTranslation(translations, id, translatedText, req[r].lang)
           untranslated == findUntranslated(rows, req[r].website)
       IN  IF translatedText = Undefined
           THEN /\ req' = [req EXCEPT ![r] = Done("translate", 500)]
                /\ UNCHANGED <<translations, updateCount>>
           ELSE /\ translations' = rows
                /\ updateCount' = [updateCount EXCEPT ![id] = @ + 1]
                /\ req' = [req EXCEPT ![r] =
                             IF untranslated = << >>
                             THEN Completed(req[r].website, req[r].lang)
                             ELSE [req[r] EXCEPT !.items = [k \in 1..Len(untranslated) |->
                                                              untranslated[k].id],
                                                 !.idx = 1]]
  /\ UNCHANGED websites
  /\ UNCHANGED <<crawlVars, envVars>>

\* the backend call of the current item is over: translateText returns, the
\* UPDATE runs (better-sqlite3 refuses to bind undefined: the TypeError goes to
\* the outer catch, 500), then the next item is sent or the answer is given.
\* item.original_text is read from the table: no statement changes that column.
TranslateItem(r) ==
  /\ req[r].kind = "translate" /\ req[r].pc = "translating"
  /\ \E translatedText \in { translateText(translations[req[r].items[req[r].idx]].original_text,
                                              req[r].lang, outcome) :
                                  outcome \in BackendOutcomes } :
       LET id == req[r].items[req[r].idx]
           last == req[r].idx = Len(req[r].items)
       IN  IF translatedText = Undefined
           THEN /\ req' = [req EXCEPT ![r] = Done("translate", 500)]
                /\ UNCHANGED <<translations, updateCount>>
           ELSE /\ translations' = updateTranslation(translations, id,
                                                     translatedText, req[r].lang)
                /\ updateCount' = [updateCount EXCEPT ![id] = @ + 1]
                /\ req' = [req EXCEPT ![r] = IF last THEN Completed(req[r].website, req[r].lang)
                                              ELSE [req[r] EXCEPT !.idx = @ + 1]]
  /\ UNCHANGED websites
  /\ UNCHANGED <<crawlVars, envVars>>

\* the backend answers 200 with {"translatedText": null}: translateText returns
\* response.data.translatedText, null, and the UPDATE binds it as NULL with
\* the target language; then the next item is sent or the answer is given
TranslateItemNull(r) ==
  /\ req[r].kind = "translate" /\ req[r].pc = "translating"
  /\ LET id == req[r].items[req[r].idx]
         last == req[r].idx = Len(req[r].items)
     IN  /\ translations' = updateTranslation(translations, id, NULL, req[r].lang)
         /\ updateCount' = [updateCount EXCEPT ![id] = @ + 1]
         /\ req' = [req EXCEPT ![r] = IF last THEN Completed(req[r].website, req[r].lang)
                                       ELSE [req[r] EXCEPT !.idx = @ + 1]]
  /\ UNCHANGED websites
  /\ UNCHANGED <<crawlVars, envVars>>

\* the backend call of the current item is over and the UPDATE throws (the
\* repository refuses the statement): the loop has no try of its own, so the
\* error reaches the outer catch, which answers 500
TranslateItemDbFail(r) ==
  /\ page.updateFails
  /\ req[r].kind = "translate" /\ req[r].pc = "translating"
  /\ req' = [req EXCEPT ![r] = Done("translate", 500)]
  /\ UNCHANGED <<websites, translations, updateCount>>
  /\ UNCHANGED <<crawlVars, envVars>>

(***************************************************************************)
(* The proxy routes /view/:domain and /view/:domain/*                      *)
(***************************************************************************)
\* app.get('/view/:domain'): findWebsite; 404 without a row, else the
\* translations of "/" are read and axios.get(`https://${domain}`) is awaited
ViewRoot(r) ==
  /\ Free(r)
  /\ \E domain \in Domains, language \in Langs :
       req' = [req EXCEPT ![r] =
                 IF findWebsite(websites, domain) = NoWebsite
                 THEN [Done("view", 404) EXCEPT !.domain = domain]
                 ELSE [Idle EXCEPT !.kind = "view", !.pc = "fetching",
                                   !.domain = domain, !.lang = language,
                                   !.website = findWebsite(websites, domain).id,
                                   !.pages = <<"/">>]]
  /\ UNCHANGED <<websites, translations, updateCount>>
  /\ UNCHANGED <<crawlVars, envVars>>

\* app.get('/view/:domain/*'): getWebsiteByDomain; without a row it throws
\* new Error(`Website not found: ${domain}`), which its own catch answers with
\* res.status(500); else axios.get(originalUrl) is awaited
ViewPath(r) ==
  /\ Free(r)
  /\ \E domain \in Domains, path \in PagePaths, lang \in Langs :
       req' = [req EXCEPT ![r] =
                 IF findWebsite(websites, domain) = NoWebsite
                 THEN [Done("viewPath", 500) EXCEPT !.domain = domain]
                 ELSE [Idle EXCEPT !.kind = "viewPath", !.pc = "fetching",
                                   !.domain = domain, !.lang = lang,
                                   !.website = findWebsite(websites, domain).id,
                                   !.pages = <<path>>]]
  /\ UNCHANGED <<websites, translations, updateCount>>
  /\ UNCHANGED <<crawlVars, envVars>>

\* the upstream page arrived: the rewritten HTML is sent
ViewFetched(r) ==
  /\ req[r].kind \in {"view", "viewPath"} /\ req[r].pc = "fetching"
  /\ req' = [req EXCEPT ![r] = Done(req[r].kind, 200)]
  /\ UNCHANGED <<websites, translations, updateCount>>
  /\ UNCHANGED <<crawlVars, envVars>>

\* the upstream fetch failed: catch (error) answers 500 with error.message
ViewFetchFail(r) ==
  /\ req[r].kind \in {"view", "viewPath"} /\ req[r].pc = "fetching"
  /\ req' = [req EXCEPT ![r] = Done(req[r].kind, 500)]
  /\ UNCHANGED <<websites, translations, updateCount>>
  /\ UNCHANGED <<crawlVars, envVars>>

NoCrawl ==
  /\ site = ScenarioSite
  /\ seedPath = NoPath
  /\ mapPc = "done"
  /\ pagesQueue = << >>
  /\ visitedPages = {}
  /\ foundPages = << >>
  /\ currentPath = NoPath
  /\ mapRes = NoRes
  /\ fetchLog = << >>
  /\ failedPaths = {}

InitDb ==
  /\ NoCrawl
  /\ InitRepository
  /\ call = NoCall
  /\ page = NoPage
  /\ view = NoView
  /\ discover = NoDiscover

\* a call of translateText by itself
InitTranslateText ==
  /\ NoCrawl
  /\ InitRepository
  /\ InitCall
  /\ page = NoPage
  /\ view = NoView
  /\ discover = NoDiscover

NextTranslateText ==
  /\ TranslateTextReturns
  /\ UNCHANGED <<crawlVars, dbVars, page, view, discover>>

SpecTranslateText == InitTranslateText /\ [][NextTranslateText]_vars

\* the requests that fill the repository
NextFetch ==
  \E r \in Reqs :
    \/ FetchWebsiteReject(r)
    \/ FetchWebsiteBadUrl(r)
    \/ FetchWebsiteStart(r)
    \/ FetchPageOk(r)
    \/ FetchPageFail(r)

SpecFetch == InitDb /\ [][NextFetch]_vars

\* ... and the requests that translate it
NextDb ==
  \E r \in Reqs :
    \/ FetchWebsiteStart(r)
    \/ FetchPageOk(r)
    \/ FetchPageFail(r)
    \/ TranslateStart(r)
    \/ TranslateItem(r)

SpecDb == InitDb /\ [][NextDb]_vars

\* ... and the requests that render it
NextView ==
  \E r \in Reqs :
    \/ FetchWebsiteStart(r)
    \/ FetchPageOk(r)
    \/ FetchPageFail(r)
    \/ ViewRoot(r)
    \/ ViewPath(r)
    \/ ViewFetched(r)
    \/ ViewFetchFail(r)

SpecView == InitDb /\ [][NextView]_vars

\* the requests that fill and translate the repository, with a backend that
\* may answer a null translatedText
NextNull ==
  \E r \in Reqs :
    \/ FetchWebsiteStart(r)
    \/ FetchPageOk(r)
    \/ TranslateStart(r)
    \/ TranslateItem(r)
    \/ TranslateItemNull(r)

SpecNull == InitDb /\ [][NextNull]_vars

\* the pages under observation: a document and the INSERTs of it that throw
BatchPages ==
  { [doc |-> d, failed |-> F, updateFails |-> TRUE] :
      d \in Docs, F \in SUBSET (1..MaxRows) }

\* one page of the site is under observation and the repository may fail
InitBatch ==
  /\ NoCrawl
  /\ InitRepository
  /\ call = NoCall
  /\ page \in { p \in BatchPages :
                 p.failed \subseteq 1..Len(SelectSeq(p.doc, LAMBDA el : el.text # "")) }
  /\ view = NoView
  /\ discover = NoDiscover

NextBatch ==
  \E r \in Reqs :
    \/ FetchWebsiteStart(r)
    \/ FetchPageSkip(r)
    \/ TranslateStart(r)
    \/ TranslateItem(r)
    \/ TranslateItemDbFail(r)

SpecBatch == InitBatch /\ [][NextBatch]_vars

\* the process is interrupted and started again: the module body runs
\* db.exec(`DROP TABLE IF EXISTS translations; DROP TABLE IF EXISTS websites;
\* CREATE TABLE ...`) on the database file, and the handlers that were
\* running are gone with the old process
Restart ==
  /\ websites' = << >>
  /\ translations' = << >>
  /\ updateCount' = << >>
  /\ req' = [r \in Reqs |-> Idle]
  /\ UNCHANGED <<crawlVars, envVars>>

\* the requests that fill the repository, and restarts of the process
NextRestart ==
  \/ \E r \in Reqs :
       \/ FetchWebsiteStart(r)
       \/ FetchPageOk(r)
       \/ FetchPageFail(r)
  \/ Restart

SpecRestart == InitDb /\ [][NextRestart]_vars

\* the pages of the upstream site have one content, the same each time a
\* request fetches them, and the repository takes every INSERT
InitRepeat ==
  /\ NoCrawl
  /\ InitRepository
  /\ call = NoCall
  /\ page \in { [doc |-> d, failed |-> {}, updateFails |-> FALSE] : d \in Docs }
  /\ view = NoView
  /\ discover = NoDiscover

\* fetch-website requests, repeated, over an upstream that may fail
NextRepeat ==
  \E r \in Reqs :
    \/ FetchWebsiteStart(r)
    \/ FetchPageSkip(r)
    \/ FetchPageFail(r)

SpecRepeat == InitRepeat /\ [][NextRepeat]_vars

(***************************************************************************)
(* The body of the proxy routes after the upstream page arrived.           *)
(***************************************************************************)
\* upstream pages: the bodies the rewriter is given
ViewDocs ==
  { \* <p>Hello world</p>
    << Element("p", << >>, <<TextNode(<<"Hello", " ", "world">>)>>) >>,
    \* <p title="Hello">Hello</p>
    << Element("p", <<Attr("title", <<"Hello">>)>>, <<TextNode(<<"Hello">>)>>) >>,
    \* <p><a title="Hello" href="/about">Hello</a></p>
    << Element("p", << >>,
               <<Inner("a", <<Attr("title", <<"Hello">>), Attr("href", <<"/", "about">>)>>,
                       <<"Hello">>)>>) >>,
    \* <p>Hello<script>Hello</script></p>
    << Element("p", << >>, <<TextNode(<<"Hello">>), Inner("script", << >>, <<"Hello">>)>>) >>,
    \* <span> Hello </span><a href="/about?x=1">World</a>
    << Element("span", << >>, <<TextNode(<<" ", "Hello", " ">>)>>),
       Element("a", <<Attr("href", <<"/", "about", "?", "x", "=", "1">>)>>,
               <<TextNode(<<"World">>)>>) >>,
    \* <a href="https://a.example/about">Hello</a><a href="https://b.example/">World</a>
    << Element("a", <<Attr("href", <<"https:", "/", "/", "a.example", "/", "about">>)>>,
               <<TextNode(<<"Hello">>)>>),
       Element("a", <<Attr("href", <<"https:", "/", "/", "b.example", "/">>)>>,
               <<TextNode(<<"World">>)>>) >>,
    \* <img src="/logo.png"><img src="data:image/png;base64,AAAA"><a href="#top">Hello</a>
    << Element("img", <<Attr("src", <<"/", "logo.png">>)>>, << >>),
       Element("img", <<Attr("src", <<"data:", "image/png;base64,AAAA">>)>>, << >>),
       Element("a", <<Attr("href", <<"#", "top">>)>>, <<TextNode(<<"Hello">>)>>) >>,
    \* <link href="style.css"><script src="https://cdn.example/app.js"></script><p>World</p>
    << Element("link", <<Attr("href", <<"style.css">>)>>, << >>),
       Element("script", <<Attr("src", <<"https:", "/", "/", "cdn.example", "/", "app.js">>)>>,
               << >>),
       Element("p", << >>, <<TextNode(<<"World">>)>>) >> }

\* a row of translations as translate-website leaves it (or as fetch-website
\* does, with translated_text NULL and language 'en')
Row(id, original_text, translated_text, language, path, element_type) ==
  [id |-> id, website_id |-> 1, original_text |-> original_text,
   translated_text |-> translated_text, language |-> language, path |-> path,
   element_type |-> element_type]

\* the table translations when the page is requested
ViewTables ==
  { << >>,
    << Row(1, <<"Hello">>, <<"Hola">>, "es", "/", "p") >>,
    << Row(1, <<"Hello">>, <<"Hola">>, "es", "/about", "p") >>,
    << Row(1, <<"Hello">>, <<"Hola">>, "es", "/", "a"),
       Row(2, <<"World">>, <<"Mundo">>, "es", "/", "a") >>,
    << Row(1, <<"Hello">>, NullText, "en", "/", "span"),
       Row(2, <<"Hello">>, <<"Hola">>, "es", "/about", "span") >> }

\* the request: app.get('/view/:domain') serves "/", app.get('/view/:domain/*')
\* serves req.params[0]
ViewRequests ==
  { [route |-> "view", domain |-> "a.example", path |-> <<"/">>, language |-> l] :
      l \in Langs }
    \cup { [route |-> "viewPath", domain |-> "a.example", path |-> <<"about">>,
             language |-> l] : l \in Langs }

\* the site is stored, its page has arrived, and the handler goes on after
\* await axios.get
InitRewrite ==
  /\ NoCrawl
  /\ websites = << [id |-> 1, domain |-> "a.example"] >>
  /\ translations \in ViewTables
  /\ updateCount = [k \in 1..Len(translations) |->
                      IF translations[k].translated_text = NullText THEN 0 ELSE 1]
  /\ req = [r \in Reqs |-> Idle]
  /\ call = NoCall
  /\ page = NoPage
  /\ view \in { q @@ [pc |-> "fetched", doc |-> d, linked |-> << >>, out |-> << >>,
                        again |-> << >>] : q \in ViewRequests, d \in ViewDocs }
  /\ discover = NoDiscover

\* what app.get('/view/:domain') does to the attributes of the page
LinkAssetRoot(doc, domain, language) ==
  RewriteAssets(RewriteLinks(doc, domain, language), domain)

\* app.get('/view/:domain') after the fetch: the translations of "/" are walked
\* into the text nodes, links and assets are rewritten, the lookup pass runs,
\* and $.html() is sent
RenderRoot ==
  /\ view.pc = "fetched" /\ view.route = "view"
  /\ LET website == findWebsite(websites, view.domain)
         rows == findTranslations(translations, website.id, view.language, "/")
         walked == WalkAndReplace(view.doc, rows)
         linked == LinkAssetRoot(walked, view.domain, view.language)
         looked == TextLookupPass(linked, websites, translations, view.domain, view.language)
     IN  view' = [view EXCEPT !.pc = "sent",
                              !.linked = LinkAssetRoot(view.doc, view.domain, view.language),
                              !.out = Html(looked)]
  /\ UNCHANGED <<crawlVars, dbVars, call, page, discover>>

\* app.get('/view/:domain/*') after the fetch: hrefs and srcs lose their
\* leading slash (the documents have no base element, style attribute or
\* style element with url()), the text pass runs, and $.html() is sent
RenderPath ==
  /\ view.pc = "fetched" /\ view.route = "viewPath"
  /\ LET linked == StripLeadingSlash(view.doc)
     IN  view' = [view EXCEPT !.pc = "sent",
                              !.linked = linked,
                              !.out = HtmlReplacePass(linked, websites, translations,
                                                      view.domain, view.language)]
  /\ UNCHANGED <<crawlVars, dbVars, call, page, discover>>

\* the page that was sent is requested through the same route: its links and
\* assets are rewritten once more
RewriteAgain ==
  /\ view.pc = "sent"
  /\ view' = [view EXCEPT !.pc = "again",
                           !.again = IF view.route = "view"
                                     THEN LinkAssetRoot(view.linked, view.domain, view.language)
                                     ELSE StripLeadingSlash(view.linked)]
  /\ UNCHANGED <<crawlVars, dbVars, call, page, discover>>

NextRewrite ==
  \/ RenderRoot
  \/ RenderPath
  \/ RewriteAgain

SpecRewrite == InitRewrite /\ [][NextRewrite]_vars

(***************************************************************************)
(* getPageLinks on the hrefs of a page.  A file name is written with its   *)
(* "." and its extension as pieces of their own, "@" too.                  *)
(***************************************************************************)
\* the hrefs of one page: at most MaxHrefs anchors
MaxHrefs == 2

\* the i flag of the extension pattern
LowerCase(piece) ==
  CASE piece = "PNG" -> "png"
    [] piece = "PDF" -> "pdf"
    [] OTHER -> piece

\* function isValidWebpagePath(url): none of the invalidPatterns /^mailto:/,
\* /^tel:/, /^#/, /^javascript:/, /\.(jpg|jpeg|png|gif|ico|css|js|pdf|doc|docx|zip)$/i,
\* /@/, /^[^/]*:/ matches, and url starts with '/', './' or '../'
isValidWebpagePath(url) ==
  /\ url # << >>
  /\ url[1] \notin Schemes \cup Opaque \cup {"#"}
  /\ ~( /\ Len(url) >= 2 /\ url[Len(url) - 1] = "."
        /\ LowerCase(url[Len(url)]) \in {"jpg", "jpeg", "png", "gif", "ico", "css", "js",
                                          "pdf", "doc", "docx", "zip"} )
  /\ \A i \in 1..Len(url) : url[i] # "@"
  /\ \/ url[1] = "/"
     \/ StartsWith(url, <<".", "/">>)
     \/ StartsWith(url, <<".", ".", "/">>)

\* getPageLinks(html, baseUrl) from the hrefs of $('a') in document order
\* (<< >> for an anchor without href; new URL does not throw on the hrefs
\* of the model): the pathnames of the hrefs on the base hostname that
\* isValidWebpagePath accepts, as Array.from(links) of the Set gives them
PageLinksOf(hrefs, hostname) ==
  LET kept == SelectSeq(hrefs, LAMBDA href :
                /\ href # << >>
                /\ ParseURL(href, hostname).hostname = hostname
                /\ isValidWebpagePath(ParseURL(href, hostname).pathname))
  IN  Unique([k \in 1..Len(kept) |-> ParseURL(kept[k], hostname).pathname])

\* the hrefs the pages of the model use
Hrefs ==
  { <<"/", "about">>,
    <<"/", "about", "#", "team">>,
    <<"about">>,
    <<"#", "top">>,
    <<"mailto:", "info", "@", "a.example">>,
    <<"tel:", "+123">>,
    <<"javascript:", "void(0)">>,
    <<"/", "logo", ".", "PNG">>,
    <<"/", "doc", ".", "pdf", "?", "dl", "=", "1">>,
    <<"/", "user", "@", "home">>,
    <<"https:", "/", "/", "a.example", "/", "contact">>,
    <<"https:", "/", "/", "b.example", "/", "x">>,
    << >> }

\* getPageLinks is called with the page and `${parsedUrl.protocol}//${domain}`
InitLinks ==
  /\ NoCrawl
  /\ InitRepository
  /\ call = NoCall
  /\ page = NoPage
  /\ view = NoView
  /\ discover \in { [pc |-> "called", hrefs |-> h, hostname |-> "a.example",
                      links |-> << >>] :
                       h \in UNION { [1..n -> Hrefs] : n \in 0..MaxHrefs } }

\* it returns Array.from(links)
GetPageLinksReturns ==
  /\ discover.pc = "called"
  /\ discover' = [discover EXCEPT !.pc = "returned",
                                   !.links = PageLinksOf(discover.hrefs, discover.hostname)]
  /\ UNCHANGED <<crawlVars, dbVars, call, page, view>>

NextLinks == GetPageLinksReturns

SpecLinks == InitLinks /\ [][NextLinks]_vars

(***************************************************************************)
(* Properties of the crawl.                                                *)
(***************************************************************************)
\* the paths the link graph of the site reaches from a set of paths
RECURSIVE Reachable(_, _)
Reachable(s, S) ==
  LET N == S \cup UNION { Range(s.pageLinks[p]) : p \in S }
  IN  IF N = S THEN S ELSE Reachable(s, N)

\* M: the number of paths of the link graph the crawl is started on
SitePaths == IF seedPath = NoPath THEN {} ELSE Reachable(site, {seedPath})

FoundPaths == {foundPages[i].path : i \in 1..Len(foundPages)}

Answered200 == mapPc = "done" /\ mapRes.status = 200

\* C1 (as stated): the crawl marks exactly min(M, maxPages) paths visited,
\* whatever the fetches do, and never more than maxPages.
C1_VisitsMinOfSizeAndCap ==
  /\ Cardinality(visitedPages) <= maxPages
  /\ Answered200 =>
       Cardinality(visitedPages) = Min(Cardinality(SitePaths), maxPages)

\* C1 (amended): the visited count never exceeds maxPages; a finished crawl has
\* marked at most min(M, maxPages) paths visited, and exactly that many when
\* no page fetch failed (M counts the paths reachable from the seed).
C1_VisitsMinWhenNoFetchFails ==
  /\ Cardinality(visitedPages) <= maxPages
  /\ Answered200 =>
       /\ Cardinality(visitedPages) <= Min(Cardinality(SitePaths), maxPages)
       /\ failedPaths = {} =>
            Cardinality(visitedPages) = Min(Cardinality(SitePaths), maxPages)

\* a crawl of a site of more than maxPages paths ended at the cap, no fetch failed
C1_Witness ==
  /\ Answered200
  /\ failedPaths = {}
  /\ Cardinality(SitePaths) > maxPages
  /\ Cardinality(visitedPages) = maxPages

\* C2: within one crawl no path is fetched more than once, whatever the link
\* graph (cycles, self-links, links back to the seed).
C2_NoPathFetchedTwice ==
  /\ \A i, j \in 1..Len(fetchLog) : fetchLog[i] = fetchLog[j] => i = j
  /\ Range(fetchLog) = visitedPages

\* a finished crawl that fetched a page linking to itself and back to the seed
C2_Witness ==
  /\ Answered200
  /\ \E p \in FoundPaths :
       /\ p # seedPath
       /\ p \in Range(site.pageLinks[p])
       /\ seedPath \in Range(site.pageLinks[p])

\* C3: every crawl terminates, and a crawl that ran its loop left it with an
\* empty frontier or with the visited count at the cap.
C3_CrawlTerminates ==
  /\ <>(mapPc = "done")
  /\ [](Answered200 =>
          (Len(pagesQueue) = 0 \/ Cardinality(visitedPages) = maxPages))

\* a crawl of a cyclic site with a failed fetch has ended
C3_Witness ==
  /\ Answered200
  /\ failedPaths # {}
  /\ \E p \in visitedPages : p \in Range(site.pageLinks[p])

\* C4: a path whose fetch failed stays visited, was fetched exactly once, is
\* in no CrawlResult; the failure leaves the frontier as it was and the loop
\* runs on; the response is 200 with totalPages the number of pages fetched
\* successfully.
C4_FailedPathState ==
  /\ \A p \in failedPaths :
       /\ p \in visitedPages
       /\ Cardinality({i \in 1..Len(fetchLog) : fetchLog[i] = p}) = 1
       /\ p \notin FoundPaths
  /\ (mapPc = "done" /\ failedPaths # {}) =>
       /\ mapRes.status = 200
       /\ mapRes.totalPages = Cardinality(Range(fetchLog) \ failedPaths)

C4_FailedFetchAbsorbed ==
  /\ []C4_FailedPathState
  /\ [][failedPaths' # failedPaths =>
          /\ mapPc' = "loop"
          /\ pagesQueue' = pagesQueue
          /\ visitedPages' = visitedPages]_vars

\* a crawl answered after a fetch failed and a later fetch succeeded
C4_Witness ==
  /\ Answered200
  /\ \E i, j \in 1..Len(fetchLog) :
       /\ i < j
       /\ fetchLog[i] \in failedPaths
       /\ fetchLog[j] \in FoundPaths

(***************************************************************************)
(* Properties of the repository and of the requests that use it.           *)
(***************************************************************************)
Fetching(r) == req[r].kind = "fetch" /\ req[r].pc = "fetching"

\* C5: however /api/fetch-website requests interleave, websites has at most
\* one row per domain, and every request for a domain works with the id of
\* that row.
C5_OneSitePerDomain ==
  /\ \A i, j \in 1..Len(websites) :
       websites[i].domain = websites[j].domain => i = j
  /\ \A r \in Reqs :
       Fetching(r) =>
         /\ req[r].website \in 1..Len(websites)
         /\ websites[req[r].website] = [id |-> req[r].website, domain |-> req[r].domain]
  /\ \A r1, r2 \in Reqs :
       (Fetching(r1) /\ Fetching(r2) /\ req[r1].domain = req[r2].domain) =>
         req[r1].website = req[r2].website

\* two requests for the same domain are in flight at once, a third asks for another
C5_Witness ==
  \E r1, r2, r3 \in Reqs :
    /\ r1 # r2
    /\ Fetching(r1) /\ Fetching(r2) /\ Fetching(r3)
    /\ req[r1].domain = req[r2].domain
    /\ req[r3].domain # req[r1].domain

\* the values translateText can hand to the UPDATE of a row
TranslationsOf(row, language) ==
  { translateText(row.original_text, language, o) : o \in BackendOutcomes } \ {Undefined}

\* C6: a row inserted with translated_text null is among findUntranslated of
\* its site; once updateTranslation(id, t, L) has run, the row is among
\* findTranslations(site, L, path) with translated_text t, and is not among
\* findUntranslated any more, now and later.
C6_InsertThenUpdate ==
  [][ /\ \A i \in (Len(translations) + 1)..Len(translations') :
           /\ translations'[i].translated_text = NULL
           /\ translations'[i] \in
                Range(findUntranslated(translations', translations'[i].website_id))
      /\ \A r \in Reqs, i \in 1..Len(translations) :
           (req[r].pc = "translating" /\ req'[r] # req[r]
              /\ translations'[i] # translations[i]) =>
             LET row == translations'[i]
             IN  /\ row.id = req[r].items[req[r].idx]
                 /\ row.translated_text \in TranslationsOf(translations[i], req[r].lang)
                 /\ row \in Range(findTranslations(translations', row.website_id,
                                                   req[r].lang, row.path))
                 /\ row \notin Range(findUntranslated(translations', row.website_id))
      /\ \A i \in 1..Len(translations) :
           translations[i] \notin Range(findUntranslated(translations,
                                                         translations[i].website_id))
             => translations'[i] \notin Range(findUntranslated(translations',
                                                               translations'[i].website_id))
    ]_vars

\* the scenario: "Hello" of "/" carries "Hola" under "es"
C6_Witness ==
  \E i \in 1..Len(translations) :
    /\ translations[i].original_text = "Hello"
    /\ translations[i].path = "/"
    /\ translations[i].translated_text = "Hola"
    /\ translations[i].language = "es"
    /\ translations[i] \in Range(findTranslations(translations,
                                                  translations[i].website_id, "es", "/"))

\* C7: whenever the backend call fails (network error, timeout, error status,
\* a response without translatedText) translateText returns its text argument
\* and raises nothing.
C7_FailureReturnsText ==
  (call.pc = "returned" /\ call.outcome \in BackendFailures) =>
    /\ call.returned = call.text
    /\ ~call.raised

\* C8: when /api/translate-website answers with the success message, every
\* row that was untranslated when the request started has a translated_text
\* and the target language as its language.
C8_SuccessMeansAllTranslated ==
  [][ \A r \in Reqs :
        (req[r].pc = "translating" /\ req'[r].pc = "done" /\ req'[r].status = 200) =>
          \A k \in 1..Len(req[r].items) :
            /\ translations'[req[r].items[k]].translated_text # NULL
            /\ translations'[req[r].items[k]].language = req[r].lang
    ]_vars

\* C9: no row of translations is changed by more than one UPDATE.
C9_MutatedAtMostOnce ==
  \A i \in 1..Len(updateCount) : updateCount[i] <= 1

\* C10: a proxy request (either route) for a domain without a row in websites
\* is answered 404 and no upstream fetch is issued for it.
C10_UnknownDomainIs404 ==
  [][ \A r \in Reqs :
        (req[r].pc = "idle" /\ req'[r].kind \in {"view", "viewPath"}
           /\ findWebsite(websites, req'[r].domain) = NoWebsite) =>
          /\ req'[r].pc = "done"
          /\ req'[r].status = 404
    ]_vars

(***************************************************************************)
(* Properties of the batch loops.                                          *)
(***************************************************************************)
Translating(r) == req[r].kind = "translate" /\ req[r].pc = "translating"

\* the texts of the rows a step appends to the table
AppendedTexts ==
  [k \in 1..(Len(translations') - Len(translations)) |->
     translations'[Len(translations) + k].original_text]

\* the texts of the page under observation whose INSERT the repository takes
TakenTexts ==
  LET texts == SelectSeq(page.doc, LAMBDA el : el.text # "")
      kept == SelectSeq([k \in 1..Len(texts) |-> k], LAMBDA k : k \notin page.failed)
  IN  [j \in 1..Len(kept) |-> texts[kept[j]].text]

\* the insert loop of fetch-website: the step that processes a page whose
\* INSERTs fail for some texts does not answer 500 and appends a row for
\* every other text of the page, in document order
C11_InsertLoopSkips ==
  [][\A r \in Reqs :
       (Fetching(r) /\ req'[r] # req[r]) =>
         /\ req'[r].status # 500
         /\ AppendedTexts = TakenTexts]_vars

\* the update loop of translate-website leaves the loop only after its last
\* item: no step ends the handler while items of the batch are left
C11_UpdateLoopSkips ==
  [][\A r \in Reqs :
       (Translating(r) /\ req'[r].pc = "done") =>
         req[r].idx = Len(req[r].items)]_vars

\* C11: in the insert loop of /api/fetch-website and in the update loop of
\* /api/translate-website a repository failure on one fragment is skipped and
\* every remaining fragment of the batch is still processed; one bad fragment
\* never aborts the batch.
C11_BadFragmentNeverAborts ==
  [][\A r \in Reqs :
       /\ (Fetching(r) /\ req'[r] # req[r]) =>
            /\ req'[r].status # 500
            /\ AppendedTexts = TakenTexts
       /\ (Translating(r) /\ req'[r].pc = "done") =>
            req[r].idx = Len(req[r].items)]_vars

(***************************************************************************)
(* Properties of the repository across restarts.                           *)
(***************************************************************************)
\* C12: Sites and Fragments that were persisted are still in the repository
\* after any step of the system, a restart of the process included: no step
\* deletes a row of websites or of translations.
C12_NothingIsDeleted ==
  [][/\ Len(websites') >= Len(websites)
     /\ \A i \in 1..Len(websites) : websites'[i] = websites[i]
     /\ Len(translations') >= Len(translations)
     /\ \A i \in 1..Len(translations) :
          /\ translations'[i].website_id = translations[i].website_id
          /\ translations'[i].original_text = translations[i].original_text
          /\ translations'[i].path = translations[i].path]_vars

(***************************************************************************)
(* Properties of the proxy routes' rewriting.                              *)
(***************************************************************************)
Sent == view.pc \in {"sent", "again"}

\* the pieces of serialized HTML that are attribute values or script/style bodies
NotText(ser) == SelectSeq(ser, LAMBDA piece : piece.kind \in {"attr", "raw"})

\* C13: on every proxy route text substitution changes text nodes only: the
\* attribute values and the script and style bodies of the response are those
\* of the page after link and asset rewriting alone, also when an attribute
\* value equals a recorded originalText or a script is inside a qualifying
\* element.
C13_SubstitutionTouchesTextOnly ==
  Sent =>
    \A k \in 1..Len(view.linked) :
      /\ view.out[k].attrs = view.linked[k].attrs
      /\ NotText(view.out[k].inner) = NotText(InnerHtml(view.linked[k]))

\* the path whose translations the request is about, as the rows have it
RequestedPath == IF view.route = "view" THEN "/" ELSE "/about"

\* the rows with a translation for the requested path and language
Recorded ==
  SelectSeq(findTranslations(translations, 1, view.language, RequestedPath),
            LAMBDA row : Truthy(row.translated_text))

\* the text of an element of the response
TextPieces(ser) == Toks(SelectSeq(ser, LAMBDA piece : piece.kind = "text"))

\* C14: on every proxy route, when the text of a qualifying element contains an
\* originalText recorded with a translatedText for the requested path and
\* language (and the element's kind), the response has that substring replaced
\* by the translatedText and the rest of the text as it was: <p>Hello world</p>
\* with ("Hello", "Hola", "p") gives <p>Hola world</p>.
C14_RecordedTextIsReplaced ==
  Sent =>
    \A k \in 1..Len(view.doc), i \in 1..Len(Recorded) :
      LET el == view.doc[k]
          row == Recorded[i]
      IN  ( /\ el.name \in Qualifying /\ el.name = row.element_type
            /\ Len(el.children) = 1 /\ el.children[1].type = "text"
            /\ Includes(TextOf(el), row.original_text) ) =>
            TextPieces(view.out[k].inner) =
              ReplaceFirst(TextOf(el), row.original_text, row.translated_text)

\* the same on app.get('/view/:domain') alone
C14_RootRoute == view.route = "view" => C14_RecordedTextIsReplaced

\* the value of the query parameter name in url.search ("?a=1&b=2"), NullText
\* when the query has no such parameter
QueryParam(search, name) ==
  LET q == IF search = << >> THEN << >> ELSE Tail(search)
      at == { i \in 1..(Len(q) - 1) :
                /\ q[i] = name /\ q[i + 1] = "="
                /\ (i = 1 \/ q[i - 1] = "&") }
  IN  IF at = {} THEN NullText
      ELSE LET i == CHOOSE j \in at : \A m \in at : j <= m
               rest == SubSeq(q, i + 2, Len(q))
           IN  SubSeq(rest, 1, FirstOf(rest, {"&"}) - 1)

\* where the anchors of a document are: <<k, 0>> is element k of the body,
\* <<k, j>> child j of it
Anchors(doc) ==
  { <<k, 0>> : k \in { n \in 1..Len(doc) : doc[n].name = "a" } }
    \cup UNION { { <<k, j>> : j \in { m \in 1..Len(doc[k].children) :
                                         doc[k].children[m].type = "tag"
                                         /\ doc[k].children[m].name = "a" } } :
                  k \in 1..Len(doc) }

AttrsAt(doc, at) ==
  IF at[2] = 0 THEN doc[at[1]].attrs ELSE doc[at[1]].children[at[2]].attrs

\* C15: on both proxy routes, every anchor of the page whose href resolves to
\* the site's own hostname has, after rewriting, an href whose path is
\* /view/<domain> followed by the target path and whose query has the parameter
\* lang with the target language, also when the href had a query string.
C15_InternalLinksCarryLang ==
  Sent =>
    \A at \in Anchors(view.doc) :
      LET href == GetAttr(AttrsAt(view.doc, at), "href")
          target == ParseURL(href, view.domain)
          rewritten == ParseURL(GetAttr(AttrsAt(view.linked, at), "href"), view.domain)
      IN  (href # << >> /\ target.hostname = view.domain) =>
            /\ rewritten.pathname = <<"/", "view", "/", view.domain>> \o target.pathname
            /\ QueryParam(rewritten.search, "lang") = <<view.language>>

\* the same for the hrefs without a query string on app.get('/view/:domain')
C15_RootRouteNoQuery ==
  Sent =>
    \A at \in Anchors(view.doc) :
      LET href == GetAttr(AttrsAt(view.doc, at), "href")
          target == ParseURL(href, view.domain)
          rewritten == ParseURL(GetAttr(AttrsAt(view.linked, at), "href"), view.domain)
      IN  (/\ view.route = "view" /\ href # << >> /\ target.hostname = view.domain
           /\ target.search = << >>) =>
            /\ rewritten.pathname = <<"/", "view", "/", view.domain>> \o target.pathname
            /\ QueryParam(rewritten.search, "lang") = <<view.language>>

\* where the asset elements of a document are
Assets(doc) ==
  { <<k, 0>> : k \in { n \in 1..Len(doc) : doc[n].name \in {"img", "script", "link"} } }
    \cup UNION { { <<k, j>> : j \in { m \in 1..Len(doc[k].children) :
                                         doc[k].children[m].type = "tag"
                                         /\ doc[k].children[m].name
                                              \in {"img", "script", "link"} } } :
                  k \in 1..Len(doc) }

\* a URL that is absolute, or a data: URI
AbsoluteOrData(value) == value # << >> /\ value[1] \in Schemes \cup {"data:"}

\* absolute asset URLs and data: URIs are in the rewritten page as they were
AssetsPassThrough ==
  \A at \in Assets(view.doc) :
    \A n \in 1..Len(AttrsAt(view.doc, at)) :
      AbsoluteOrData(AttrsAt(view.doc, at)[n].value) =>
        AttrsAt(view.linked, at)[n] = AttrsAt(view.doc, at)[n]

\* C16: link and asset rewriting is idempotent: rewriting the links and assets
\* of an already rewritten page changes no link or asset URL again, and
\* absolute URLs and data: URIs of assets pass through unchanged.
C16_RewritingIsIdempotent ==
  view.pc = "again" =>
    /\ view.again = view.linked
    /\ AssetsPassThrough

\* the same for the asset URLs alone
C16_AssetsIdempotent ==
  view.pc = "again" =>
    /\ \A at \in Assets(view.linked) : AttrsAt(view.again, at) = AttrsAt(view.linked, at)
    /\ AssetsPassThrough

(***************************************************************************)
(* Properties of getPageLinks.                                             *)
(***************************************************************************)
\* an href the discoverer is to reject whatever it resolves to
RejectedHref(href) ==
  href = << >> \/ href[1] \in {"mailto:", "tel:", "javascript:", "#"}

RejectedExtensions ==
  {"jpg", "jpeg", "png", "gif", "ico", "css", "js", "pdf", "doc", "docx", "zip"}

\* the result is duplicate-free, every entry is an absolute path, and none has
\* a rejected extension
C17_EntriesAreWebpagePaths ==
  discover.pc = "returned" =>
    /\ \A i, j \in 1..Len(discover.links) :
         discover.links[i] = discover.links[j] => i = j
    /\ \A i \in 1..Len(discover.links) :
         LET entry == discover.links[i]
         IN  /\ entry[1] = "/"
             /\ ~(/\ Len(entry) >= 2 /\ entry[Len(entry) - 1] = "."
                   /\ LowerCase(entry[Len(entry)]) \in RejectedExtensions)

\* C17: for every document and base URL the result of getPageLinks is a
\* duplicate-free set of absolute paths on the base hostname; no entry comes
\* from a mailto:, tel:, javascript: or fragment-only href, and no entry has a
\* rejected extension.
C17_LinksAreSameHostPaths ==
  discover.pc = "returned" =>
    /\ C17_EntriesAreWebpagePaths
    /\ \A i \in 1..Len(discover.links) :
         \E k \in 1..Len(discover.hrefs) :
           /\ ~RejectedHref(discover.hrefs[k])
           /\ ParseURL(discover.hrefs[k], discover.hostname).hostname = discover.hostname
           /\ ParseURL(discover.hrefs[k], discover.hostname).pathname = discover.links[i]

(***************************************************************************)
(* Properties of the crawl order.                                          *)
(***************************************************************************)
\* the paths within n links of the paths of S
RECURSIVE Within(_, _, _)
Within(s, S, n) ==
  IF n = 0 THEN S
  ELSE LET W == Within(s, S, n - 1)
       IN  W \cup UNION { Range(s.pageLinks[p]) : p \in W }

\* C18: the crawl is breadth-first: while every fetch has succeeded, a path is
\* fetched only after every path nearer to the seed, so each path at link
\* distance d is fetched before any path at distance d + 1, and under the cap
\* the visited set is a prefix of the breadth-first order.
C18_BreadthFirstOrder ==
  (seedPath # NoPath /\ failedPaths = {}) =>
    /\ visitedPages = Range(fetchLog)
    /\ \A n \in 0..site.size :
         LET W == Within(site, {seedPath}, n)
         IN  \A j \in 1..Len(fetchLog) :
               fetchLog[j] \in W \/ W \subseteq Range(SubSeq(fetchLog, 1, j - 1))

\* a crawl without failures was cut by the cap after it had fetched paths two
\* or more links from the seed
C18_Witness ==
  /\ Answered200 /\ failedPaths = {}
  /\ Cardinality(visitedPages) = maxPages
  /\ Cardinality(SitePaths) > maxPages
  /\ \E j \in 1..Len(fetchLog) : fetchLog[j] \notin Within(site, {seedPath}, 1)
  /\ \E p \in Within(site, {seedPath}, 2) : p \notin visitedPages

(***************************************************************************)
(* Properties of the untranslated rows.                                    *)
(***************************************************************************)
\* C19: in every reachable state of the repository, a row whose
\* translated_text is NULL has language 'en' and a non-empty original_text.
C19_UntranslatedIsEnglish ==
  \A i \in 1..Len(translations) :
    translations[i].translated_text = NULL =>
      /\ translations[i].language = "en"
      /\ translations[i].original_text # ""

(***************************************************************************)
(* Properties of a second translation run.                                 *)
(***************************************************************************)
\* the rows of a site
RowsOf(websiteId) ==
  { i \in 1..Len(translations) : translations[i].website_id = websiteId }

\* request r1 is the first translate request, it was for the site websiteId
\* and language L1 and has answered "Website translated successfully"; every request
\* sent before the next one has answered, and every row of the site was there
\* when r1 read the untranslated rows (r1 has updated each of them)
RunCompleted(r1, websiteId, L1) ==
  /\ req[r1] = Completed(websiteId, L1)
  /\ \A k \in 1..(r1 - 1) : req[k].pc = "done" /\ req[k].kind # "translate"
  /\ RowsOf(websiteId) # {}
  /\ \A i \in RowsOf(websiteId) : updateCount[i] >= 1

\* C20: when the first translate run of a site, to language L1, has completed
\* and the next request is a translate request for the same site to another
\* language L2, no row is updated: the request answers without taking an
\* item, the table is what it was, and no row of the site is found by a lookup
\* with language L2.
C20_SecondRunUpdatesNothing ==
  [][\A r1 \in Reqs, websiteId \in 1..Len(websites), L1 \in Langs, L2 \in Langs :
       ( /\ r1 + 1 \in Reqs
         /\ L1 # L2
         /\ RunCompleted(r1, websiteId, L1)
         /\ Free(r1 + 1)
         /\ req'[r1 + 1].kind = "translate"
         /\ req'[r1 + 1].website = websiteId
         /\ req'[r1 + 1].lang = L2 )
       => /\ req'[r1 + 1] = Completed(websiteId, L2)
          /\ translations' = translations
          /\ \A i \in RowsOf(websiteId) : translations'[i].language # L2]_vars

(***************************************************************************)
(* Properties of a failed backend call during /api/translate-website.      *)
(***************************************************************************)
\* the step in which request r's backend call for its current item is over
\* and the backend's answer was outcome
CallIsOver(r, outcome) ==
  /\ Translating(r)
  /\ req'[r] # req[r]
  /\ LET id == req[r].items[req[r].idx]
         translatedText == translateText(translations[id].original_text, req[r].lang, outcome)
     IN  IF translatedText = Undefined
         THEN req'[r].status = 500
         ELSE /\ updateCount'[id] = updateCount[id] + 1
              /\ translations'[id].translated_text = translatedText

\* the row of request r's current item is stored with its original text as
\* the translation and the target language, and is not untranslated any more
StoredAsOriginal(r) ==
  LET id == req[r].items[req[r].idx]
  IN  /\ translations'[id].translated_text = translations[id].original_text
      /\ translations'[id].language = req[r].lang
      /\ \A k \in 1..Len(findUntranslated(translations', req[r].website)) :
           findUntranslated(translations', req[r].website)[k].id # id

\* C21: when the backend call of a fragment fails during
\* /api/translate-website (no connection, a timeout, an error status, a body
\* without translatedText), the row is stored with translated_text equal to
\* its original_text and the target language, and findUntranslated does not
\* return it any more.
C21_FailedCallStoresOriginal ==
  [][\A r \in Reqs, outcome \in BackendOutcomes :
       (outcome.kind \in BackendFailures /\ CallIsOver(r, outcome))
         => StoredAsOriginal(r)]_vars

\* the same for the failures on which axios.post throws
C21_ThrownFailureStoresOriginal ==
  [][\A r \in Reqs, outcome \in BackendOutcomes :
       (outcome.kind \in BackendFailures \ {"malformed"} /\ CallIsOver(r, outcome))
         => StoredAsOriginal(r)]_vars

\* a row that has a translated_text is never taken by a later run
C21_StoredRowIsNotRetried ==
  [][\A r \in Reqs :
       (Free(r) /\ req'[r].pc = "translating")
         => \A k \in 1..Len(req'[r].items) :
              translations[req'[r].items[k]].translated_text = NULL]_vars

(***************************************************************************)
(* Properties of a failed upstream fetch during /api/fetch-website.        *)
(***************************************************************************)
\* the texts the extraction finds in the upstream page
PageTexts == SelectSeq(page.doc, LAMBDA el : el.text # "")

\* C22: when the upstream fetch of a selected page fails in
\* /api/fetch-website, the request answers 500 and the websites row of the
\* domain and every row inserted from the pages before it stay as they are
\* (nothing is rolled back); and each page a request fetches appends one row
\* per text of the page, whatever rows the repository already has, so a
\* repeated request inserts the same fragments again.
C22_NoRollbackRepeatInserts ==
  [][\A r \in Reqs :
       Fetching(r) /\ req'[r] # req[r] =>
         IF req'[r].pc = "done" /\ req'[r].status # 200
         THEN /\ req'[r].status = 500
              /\ websites' = websites
              /\ translations' = translations
              /\ req[r].website \in 1..Len(websites)
              /\ websites[req[r].website].domain = req[r].domain
         ELSE /\ Len(translations') = Len(translations) + Len(PageTexts)
              /\ SubSeq(translations', 1, Len(translations)) = translations
              /\ \A j \in 1..Len(PageTexts) :
                   LET row == translations'[Len(translations) + j]
                   IN  /\ row.website_id = req[r].website
                       /\ row.path = Head(req[r].pages)
                       /\ row.original_text = PageTexts[j].text
                       /\ row.translated_text = NULL
                       /\ row.language = "en"]_vars

\* the first request inserted the fragment of its first page and answered 500
\* on its second page; the same request, sent again, has inserted the
\* fragment of the first page again
C22_Witness ==
  /\ req[1].kind = "fetch" /\ req[1].pc = "done" /\ req[1].status = 500
  /\ req[2].kind = "fetch"
  /\ req[3].pc = "idle"
  /\ Len(websites) = 1
  /\ Len(translations) = 2
  /\ translations[1].path = translations[2].path
  /\ translations[1].original_text = translations[2].original_text

(***************************************************************************)
(* Properties of a fetch that interleaves with a translation run.          *)
(***************************************************************************)
\* the ids of the rows request r read as untranslated at its start
ItemsOf(r) == { req[r].items[k] : k \in 1..Len(req[r].items) }

\* request r is the only translate request sent so far
OnlyTranslateRequest(r) == \A k \in Reqs \ {r} : req[k].kind # "translate"

=============================================================================
